---- MODULE Spec2Model ----
(***************************************************************************)
(* Double-entry bookkeeping engine of the logistic management backend:     *)
(* the accounts router (chart of accounts, postings, balance, ledger) and  *)
(* the reports router (trial balance, balance sheet), over the tables of   *)
(* the database schema.                                                    *)
(*                                                                         *)
(* Every db.query of a handler is its own autocommitted statement on the   *)
(* connection pool: the handlers open no database transaction.  A handler  *)
(* with several awaited queries is therefore a sequence of steps, and the  *)
(* steps of different requests interleave.                                 *)
(*                                                                         *)
(* Amounts are integers counting half cents (0.005 currency unit), so that *)
(* the rounding of the DECIMAL(15,2) columns is visible: 2 is one cent.    *)
(* An amount a request leaves out is the amount 0, which is what           *)
(* `entry.debit_amount || 0` makes of it.                                  *)
(***************************************************************************)
EXTENDS Integers, Sequences, FiniteSets, TLC

(* ------------------------------ bounds -------------------------------- *)
NAcc == 2          \* accounts of the initial chart of accounts
MaxAmt == 2        \* largest amount a request submits, in half cents, of either sign
MaxEntries == 2    \* longest entries array a request submits
MaxTx == 2         \* rows the transactions table can hold (several requests)
MaxTxPost == 1     \* rows the transactions table can hold (arbitrary request)
MaxDate == 2       \* transaction dates are 1..MaxDate
NProc == 2         \* posting requests in flight at the same time
MaxNewAccounts == 1  \* accounts created on top of the initial chart
MaxClock == 1      \* Date.now() is in 1..MaxClock
MaxRandom == 2     \* Math.random() gives one of MaxRandom suffixes
MaxWalletAmt == 3  \* largest amount of a wallet request, in half cents
MaxWalletTx == 3   \* wallet requests that get past the balance check
NUsers == 2        \* users an admin can recharge
MaxAddresses == 2  \* addresses a user creates

(* --------------------------- program constants ------------------------ *)
Tolerance == 2     \* 0.01 currency unit, in half cents
MinAmount == 2     \* smallest amount of a wallet request: 0.01, in half cents

AccountTypes == <<"asset", "revenue", "liability", "expense", "equity">>

VARIABLES
    accounts,             \* table accounts: set of rows
    nextAccountId,        \* SERIAL sequence of accounts.id
    transactions,         \* table transactions: row i has id i
    transaction_entries,  \* table transaction_entries: row i has id i
    post,                 \* post[p]: the POST /transactions handler of request p
    del,                  \* the DELETE /:id handler
    bs,                   \* the GET /balance-sheet handler
    inc,                  \* the GET /income-statement handler
    resp,                 \* the response sent by the last step, if any
    calls,                \* history: calls[t] is the request that inserted transaction t
    wallets,              \* table wallets: set of rows
    nextWalletId,         \* SERIAL sequence of wallets.id
    wallet_transactions,  \* table wallet_transactions: row i has id i
    wal,                  \* wal[p]: the wallet handler of request p
    addresses,            \* table addresses: set of rows
    nextAddressId,        \* SERIAL sequence of addresses.id
    adr                   \* adr[p]: the address handler of request p

vars == <<accounts, nextAccountId, transactions, transaction_entries,
          post, del, bs, inc, resp, calls,
          wallets, nextWalletId, wallet_transactions, wal,
          addresses, nextAddressId, adr>>

\* the tables and handlers of the accounting, wallet and address routers
accountingVars == <<accounts, nextAccountId, transactions, transaction_entries,
                    post, del, bs, inc, calls>>
walletVars == <<wallets, nextWalletId, wallet_transactions, wal>>
addressVars == <<addresses, nextAddressId, adr>>

Procs == 1..NProc
Amounts == (0 - MaxAmt)..MaxAmt
Dates == 1..MaxDate

(* ------------------------------ helpers ------------------------------- *)
Abs(x) == IF x < 0 THEN 0 - x ELSE x

RECURSIVE SumSeq(_)
SumSeq(s) == IF s = <<>> THEN 0 ELSE Head(s) + SumSeq(Tail(s))

RECURSIVE SumSet(_, _)
\* sum of f[x] over the finite set S
SumSet(f, S) ==
    IF S = {} THEN 0
    ELSE LET x == CHOOSE y \in S : TRUE IN f[x] + SumSet(f, S \ {x})

SeqsOf(S, lo, hi) == UNION {[1..n -> S] : n \in lo..hi}

NoResp == [op |-> "none"]

(* ------------------------------ schema -------------------------------- *)
\* DECIMAL(15,2): a value is rounded to whole cents when it is stored,
\* halves away from zero.
Round2(x) == IF x >= 0 THEN ((x + 1) \div 2) * 2 ELSE 0 - (((0 - x) + 1) \div 2) * 2

\* transaction_entries.account_id REFERENCES accounts(id)
AccountExistsUnchecked(id) == TRUE
AccountExists(id) == \E a \in accounts : a.id = id

AccountRow(id) == CHOOSE a \in accounts : a.id = id

\* accounts.parent_account_id REFERENCES accounts(id): another account names
\* the account as its parent
HasChild(id) == \E a \in accounts : a.parent_account_id = id /\ a.id # id

\* the foreign key of parent_account_id is checked at the end of the
\* statement: NULL (0 here), the row's own id and the id of an account pass
ParentExists(id, parent) == parent = 0 \/ parent = id \/ AccountExists(parent)

HasEntry(id) == \E i \in 1..Len(transaction_entries) : transaction_entries[i].account_id = id

\* the chart of accounts the system starts with: account i has type
\* AccountTypes[i] (cycling), number 1000 * i, no parent and the default
\* of the balance column
InitialAccount(i) ==
    [id |-> i, account_number |-> 1000 * i,
     account_type |-> AccountTypes[((i - 1) % Len(AccountTypes)) + 1],
     parent_account_id |-> 0, balance |-> 0]

(* ------------------------- request bodies ----------------------------- *)
Line(a, d, c) == [account_id |-> a, debit_amount |-> d, credit_amount |-> c]

\* any entry a caller can submit: an existing account or an id that names no
\* account, any two amounts
AnyLines == {Line(a, d, c) : a \in 1..(NAcc + 1), d \in Amounts, c \in Amounts}

\* entries of well-formed postings: a debit line or a credit line on an
\* account of the chart
LinesOf(amounts) ==
    {Line(a, m, 0) : a \in 1..NAcc, m \in amounts}
        \cup {Line(a, 0, m) : a \in 1..NAcc, m \in amounts}

\* lines of one cent
OneCentLines == LinesOf({2})

\* lines of two cents
TwoCentLines == LinesOf({4})

\* lines of one cent or of two cents
BookLines == OneCentLines \cup TwoCentLines

\* the plain posting on an account: a debit line on it and a credit line of
\* the same amount on an account
Transfers(from, amounts) ==
    {<<Line(from, m, 0), Line(b, 0, m)>> : b \in 1..NAcc, m \in amounts}

(* --------------------------- Posting Engine --------------------------- *)
totalDebits(entries) == SumSeq([i \in 1..Len(entries) |-> entries[i].debit_amount])

totalCredits(entries) == SumSeq([i \in 1..Len(entries) |-> entries[i].credit_amount])

BalancedInput(entries) == ~(Abs(totalDebits(entries) - totalCredits(entries)) > Tolerance)

\* the row an INSERT INTO transaction_entries stores for an entry
StoredEntry(txid, e) ==
    [transaction_id |-> txid, account_id |-> e.account_id,
     debit_amount |-> Round2(e.debit_amount),
     credit_amount |-> Round2(e.credit_amount)]

\* INSERT: the new row gets the next id of the SERIAL column
InsertRowLost(table, row) ==
    IF table # <<>> /\ table[Len(table)].transaction_id # row.transaction_id
    THEN [table EXCEPT ![Len(table)] = row]
    ELSE Append(table, row)
InsertRow(table, row) == Append(table, row)

Idle == [pc |-> "idle", entries |-> <<>>, txid |-> 0, i |-> 0]

\* express-validator: entries must be an array of at least 2 elements
PostTransaction_Invalid(p, entries) ==
    /\ post[p].pc = "idle"
    /\ Len(entries) < 2
    /\ resp' = [op |-> "post", status |-> 400, error |-> "ValidationError"]
    /\ UNCHANGED <<walletVars, addressVars, inc, accounts, nextAccountId, transactions, transaction_entries,
                   post, del, bs, calls>>

\* debits and credits differ by more than the tolerance: 400 with a message
\* (the message does not carry the totals)
PostTransaction_Imbalance(p, entries) ==
    /\ post[p].pc = "idle"
    /\ Len(entries) >= 2
    /\ ~BalancedInput(entries)
    /\ resp' = [op |-> "post", status |-> 400, error |-> "ImbalanceError"]
    /\ UNCHANGED <<walletVars, addressVars, inc, accounts, nextAccountId, transactions, transaction_entries,
                   post, del, bs, calls>>

\* `TXN${Date.now()}${Math.floor(1000 + Math.random() * 9000)}`: both parts
\* have a fixed number of digits, so the string is the pair
transactionNumber(now, random) == <<now, 1000 + random>>

\* transactions.transaction_number is UNIQUE
NumberUsedUnchecked(number) == FALSE
NumberUsed(number) ==
    \E t \in DOMAIN transactions : transactions[t].transaction_number = number

\* validation passed: INSERT INTO transactions ... RETURNING id, with the
\* transaction number the handler generated
PostTransaction_InsertNumbered(p, entries, date, maxTx, number) ==
    /\ post[p].pc = "idle"
    /\ Len(transactions) < maxTx
    /\ Len(entries) >= 2
    /\ BalancedInput(entries)
    /\ ~NumberUsed(number)
    /\ transactions' = Append(transactions, [date |-> date, status |-> "pending",
                                             transaction_number |-> number])
    /\ post' = [post EXCEPT ![p] = [pc |-> "entries", entries |-> entries,
                                    txid |-> Len(transactions) + 1, i |-> 1]]
    /\ calls' = Append(calls, [entries |-> entries, outcome |-> "running"])
    /\ resp' = NoResp
    /\ UNCHANGED <<walletVars, addressVars, inc, accounts, nextAccountId, transaction_entries, del, bs>>

\* the same, when the clock has advanced since the posting before
PostTransaction_InsertTransaction(p, entries, date, maxTx) ==
    PostTransaction_InsertNumbered(p, entries, date, maxTx,
                                   transactionNumber(MaxClock + Len(transactions) + 1, 0))

\* the generated number is the number of a transaction of the journal: the
\* INSERT violates UNIQUE, the catch block answers 500, nothing is written
PostTransaction_NumberError(p, entries, number) ==
    /\ post[p].pc = "idle"
    /\ Len(entries) >= 2
    /\ BalancedInput(entries)
    /\ NumberUsed(number)
    /\ resp' = [op |-> "post", status |-> 500, error |-> "Server error",
                number |-> number]
    /\ UNCHANGED <<walletVars, addressVars, inc, accounts, nextAccountId, transactions, transaction_entries,
                   post, del, bs, calls>>

\* one turn of the loop: INSERT INTO transaction_entries; after the last
\* entry the handler answers 200
PostTransaction_InsertEntryBalance(p) ==
    LET h == post[p]
        e == h.entries[h.i]
    IN /\ h.pc = "entries"
       /\ AccountExists(e.account_id)
       /\ transaction_entries' = InsertRow(transaction_entries, StoredEntry(h.txid, e))
       /\ IF h.i = Len(h.entries)
          THEN /\ post' = [post EXCEPT ![p] = Idle]
               /\ calls' = [calls EXCEPT ![h.txid].outcome = "ok"]
               /\ resp' = [op |-> "post", status |-> 200, transaction_id |-> h.txid]
          ELSE /\ post' = [post EXCEPT ![p].i = h.i + 1]
               /\ calls' = calls
               /\ resp' = NoResp
       /\ accounts' = {IF a.id = e.account_id
                        THEN [a EXCEPT !.balance = a.balance + Round2(e.credit_amount)
                                                       - Round2(e.debit_amount)]
                        ELSE a : a \in accounts}
       /\ UNCHANGED <<walletVars, addressVars, inc, nextAccountId, transactions, del, bs>>
PostTransaction_InsertEntry(p) ==
    LET h == post[p]
        e == h.entries[h.i]
    IN /\ h.pc = "entries"
       /\ AccountExists(e.account_id)
       /\ transaction_entries' = InsertRow(transaction_entries, StoredEntry(h.txid, e))
       /\ IF h.i = Len(h.entries)
          THEN /\ post' = [post EXCEPT ![p] = Idle]
               /\ calls' = [calls EXCEPT ![h.txid].outcome = "ok"]
               /\ resp' = [op |-> "post", status |-> 200, transaction_id |-> h.txid]
          ELSE /\ post' = [post EXCEPT ![p].i = h.i + 1]
               /\ calls' = calls
               /\ resp' = NoResp
       /\ UNCHANGED <<walletVars, addressVars, inc, accounts, nextAccountId, transactions, del, bs>>

\* the INSERT violates the foreign key on account_id: the query throws, the
\* catch block answers 500; the rows inserted so far stay
PostTransaction_EntryError(p) ==
    LET h == post[p]
        e == h.entries[h.i]
    IN /\ h.pc = "entries"
       /\ ~AccountExists(e.account_id)
       /\ post' = [post EXCEPT ![p] = Idle]
       /\ calls' = [calls EXCEPT ![h.txid].outcome = "error"]
       /\ resp' = [op |-> "post", status |-> 500, error |-> "Server error"]
       /\ UNCHANGED <<walletVars, addressVars, inc, accounts, nextAccountId, transactions, transaction_entries,
                      del, bs>>

(* --------------------------- Account Registry ------------------------- *)
\* the type the accounts created on top of the initial chart are given
NewAccountTypes == {"asset"}

NumberTaken(number) == \E a \in accounts : a.account_number = number

\* POST /: INSERT INTO accounts ... RETURNING *; parent 0 is no parent (NULL)
CreateAccount(number, type, parent) ==
    /\ nextAccountId <= NAcc + MaxNewAccounts
    /\ ~NumberTaken(number)
    /\ ParentExists(nextAccountId, parent)
    /\ accounts' = accounts \cup
          {[id |-> nextAccountId, account_number |-> number,
            account_type |-> type, parent_account_id |-> parent, balance |-> 0]}
    /\ nextAccountId' = nextAccountId + 1
    /\ resp' = [op |-> "create", status |-> 200, id |-> nextAccountId,
                number |-> number]
    /\ UNCHANGED <<walletVars, addressVars, inc, transactions, transaction_entries, post, del, bs, calls>>

\* the INSERT violates UNIQUE (account_number) or the foreign key of
\* parent_account_id: the catch block answers 500.  The id drawn from the
\* sequence is lost.
CreateAccount_Error(number, type, parent) ==
    /\ nextAccountId <= NAcc + MaxNewAccounts
    /\ NumberTaken(number) \/ ~ParentExists(nextAccountId, parent)
    /\ nextAccountId' = nextAccountId + 1
    /\ resp' = [op |-> "create", status |-> 500, error |-> "Server error",
                number |-> number]
    /\ UNCHANGED <<walletVars, addressVars, inc, accounts, transactions, transaction_entries, post, del, bs, calls>>

\* PUT /:id: UPDATE accounts SET ..., account_type = $2, parent_account_id = $3
\* ... WHERE id = $6 RETURNING *; nothing but the foreign key is checked
UpdateAccount(id, type, parent) ==
    /\ AccountExists(id)
    /\ ParentExists(id, parent)
    /\ accounts' = {IF a.id = id
                     THEN [a EXCEPT !.account_type = type, !.parent_account_id = parent]
                     ELSE a : a \in accounts}
    /\ resp' = [op |-> "update", status |-> 200, id |-> id, parent |-> parent]
    /\ UNCHANGED <<walletVars, addressVars, inc, nextAccountId, transactions, transaction_entries, post, del, bs, calls>>

\* the UPDATE violates the foreign key of parent_account_id: 500
UpdateAccount_Error(id, type, parent) ==
    /\ AccountExists(id)
    /\ ~ParentExists(id, parent)
    /\ resp' = [op |-> "update", status |-> 500, error |-> "Server error",
                id |-> id, parent |-> parent]
    /\ UNCHANGED <<walletVars, addressVars, inc, accounts, nextAccountId, transactions, transaction_entries,
                   post, del, bs, calls>>

\* no row has the id: the UPDATE changes nothing and the handler answers 200
\* with the missing first row, an empty body
UpdateAccount_Missing(id) ==
    /\ ~AccountExists(id)
    /\ resp' = [op |-> "update", status |-> 200, id |-> id, parent |-> 0]
    /\ UNCHANGED <<walletVars, addressVars, inc, accounts, nextAccountId, transactions, transaction_entries,
                   post, del, bs, calls>>

DelIdle == [pc |-> "idle", id |-> 0]

\* DELETE /:id, first query: SELECT COUNT(*) FROM transaction_entries WHERE
\* account_id = $1 finds no entry
DeleteAccount_Check(id) ==
    /\ del.pc = "idle"
    /\ ~HasEntry(id)
    /\ del' = [pc |-> "delete", id |-> id]
    /\ resp' = NoResp
    /\ UNCHANGED <<walletVars, addressVars, inc, accounts, nextAccountId, transactions, transaction_entries,
                   post, bs, calls>>

\* the count is positive: 400 'Cannot delete account with existing transactions'
DeleteAccount_Refuse(id) ==
    /\ del.pc = "idle"
    /\ HasEntry(id)
    /\ resp' = [op |-> "delete", status |-> 400, error |-> "ConflictError", id |-> id]
    /\ UNCHANGED <<walletVars, addressVars, inc, accounts, nextAccountId, transactions, transaction_entries,
                   post, del, bs, calls>>

\* the foreign keys on accounts(id) have no ON DELETE clause: a row that an
\* entry or a child account references cannot be deleted
DeleteBlockedChildOnly(id) == HasChild(id)
DeleteBlocked(id) == HasEntry(id) \/ HasChild(id)

\* second query: DELETE FROM accounts WHERE id = $1 (no row when the id
\* names no account), then 'Account removed'
DeleteAccount_DeleteCascade ==
    /\ del.pc = "delete"
    /\ ~HasChild(del.id)
    /\ accounts' = {a \in accounts : a.id # del.id}
    /\ transaction_entries' =
          SelectSeq(transaction_entries, LAMBDA row : row.account_id # del.id)
    /\ del' = DelIdle
    /\ resp' = [op |-> "delete", status |-> 200, id |-> del.id]
    /\ UNCHANGED <<walletVars, addressVars, inc, nextAccountId, transactions, post, bs, calls>>
DeleteAccount_Delete ==
    /\ del.pc = "delete"
    /\ ~DeleteBlocked(del.id)
    /\ accounts' = {a \in accounts : a.id # del.id}
    /\ del' = DelIdle
    /\ resp' = [op |-> "delete", status |-> 200, id |-> del.id]
    /\ UNCHANGED <<walletVars, addressVars, inc, nextAccountId, transactions, transaction_entries, post, bs, calls>>

\* the DELETE violates a foreign key: the catch block answers 500
DeleteAccount_Error ==
    /\ del.pc = "delete"
    /\ DeleteBlocked(del.id)
    /\ del' = DelIdle
    /\ resp' = [op |-> "delete", status |-> 500, error |-> "Server error", id |-> del.id]
    /\ UNCHANGED <<walletVars, addressVars, inc, accounts, nextAccountId, transactions, transaction_entries,
                   post, bs, calls>>

(* -------------------------- Balance Calculator ------------------------ *)
AccountIds == {a.id : a \in accounts}

RowsOfAccount(table, accountId) == {i \in DOMAIN table : table[i].account_id = accountId}

DebitsOn(table, ids) == SumSet([i \in DOMAIN table |-> table[i].debit_amount], ids)

CreditsOn(table, ids) == SumSet([i \in DOMAIN table |-> table[i].credit_amount], ids)

\* SELECT SUM(credit_amount) - SUM(debit_amount) ... WHERE account_id = $1;
\* the NULL of an account without entries becomes 0
ComputeBalanceOn(table, accountId) ==
    CreditsOn(table, RowsOfAccount(table, accountId))
      - DebitsOn(table, RowsOfAccount(table, accountId))

ComputeBalance(accountId) == ComputeBalanceOn(transaction_entries, accountId)

\* GET /balance/:id
GetBalance(accountId) ==
    /\ resp' = [op |-> "balance", account_id |-> accountId,
                balance |-> ComputeBalance(accountId)]
    /\ UNCHANGED <<walletVars, addressVars, inc, accounts, nextAccountId, transactions, transaction_entries,
                   post, del, bs, calls>>

\* ORDER BY t.date, te.id
LedgerBefore(i, j) ==
    LET di == transactions[transaction_entries[i].transaction_id].date
        dj == transactions[transaction_entries[j].transaction_id].date
    IN di < dj \/ (di = dj /\ i <= j)

RECURSIVE LedgerOrder(_)
LedgerOrder(ids) ==
    IF ids = {} THEN <<>>
    ELSE LET first == CHOOSE i \in ids : \A j \in ids : LedgerBefore(i, j)
         IN <<first>> \o LedgerOrder(ids \ {first})

\* the correlated subquery: SUM(debit_amount) - SUM(credit_amount) over the
\* entries of the account WHERE id <= te.id
running_balance(accountId, id) ==
    LET upTo == {j \in RowsOfAccount(transaction_entries, accountId) : j <= id}
    IN DebitsOn(transaction_entries, upTo) - CreditsOn(transaction_entries, upTo)

GetAccountLedgerRows(accountId) ==
    LET order == LedgerOrder(RowsOfAccount(transaction_entries, accountId))
    IN [k \in 1..Len(order) |->
          [id |-> order[k],
           transaction_id |-> transaction_entries[order[k]].transaction_id,
           date |-> transactions[transaction_entries[order[k]].transaction_id].date,
           debit_amount |-> transaction_entries[order[k]].debit_amount,
           credit_amount |-> transaction_entries[order[k]].credit_amount,
           running_balance |-> running_balance(accountId, order[k])]]

\* GET /ledger/:accountId
GetAccountLedger(accountId) ==
    /\ resp' = [op |-> "ledger", account_id |-> accountId,
                rows |-> GetAccountLedgerRows(accountId)]
    /\ UNCHANGED <<walletVars, addressVars, inc, accounts, nextAccountId, transactions, transaction_entries,
                   post, del, bs, calls>>

(* --------------------------- Report Generator ------------------------- *)
\* accounts LEFT JOIN transaction_entries GROUP BY account: one row per account
TrialBalanceRows ==
    [id \in AccountIds |->
       [total_debits |-> DebitsOn(transaction_entries, RowsOfAccount(transaction_entries, id)),
        total_credits |-> CreditsOn(transaction_entries, RowsOfAccount(transaction_entries, id)),
        balance |-> ComputeBalance(id)]]

\* GET /trial-balance: one query, then the totals
TrialBalance ==
    LET rows == TrialBalanceRows
        debits == SumSet([id \in AccountIds |-> rows[id].total_debits], AccountIds)
        credits == SumSet([id \in AccountIds |-> rows[id].total_credits], AccountIds)
    IN /\ resp' = [op |-> "trial_balance", accounts |-> rows,
                   total_debits |-> debits, total_credits |-> credits,
                   net_difference |-> credits - debits]
       /\ UNCHANGED <<walletVars, addressVars, inc, accounts, nextAccountId, transactions, transaction_entries,
                      post, del, bs, calls>>

AccountsOfType(type) == {a.id : a \in {b \in accounts : b.account_type = type}}

\* SUM(debit_amount) - SUM(credit_amount) per account of the type, summed
DebitSection(type) ==
    SumSet([id \in AccountIds |-> 0 - ComputeBalance(id)], AccountsOfType(type))

\* SUM(credit_amount) - SUM(debit_amount) per account of the type, summed
CreditSection(type) ==
    SumSet([id \in AccountIds |-> ComputeBalance(id)], AccountsOfType(type))

\* start is history: the number of entry rows when the first query ran
BsIdle == [pc |-> "idle", assets |-> 0, liabilities |-> 0, start |-> 0]

\* GET /balance-sheet, first query: the asset accounts
BalanceSheet_Assets ==
    /\ bs.pc = "idle"
    /\ bs' = [pc |-> "liabilities", assets |-> DebitSection("asset"), liabilities |-> 0,
              start |-> Len(transaction_entries)]
    /\ resp' = NoResp
    /\ UNCHANGED <<walletVars, addressVars, inc, accounts, nextAccountId, transactions, transaction_entries,
                   post, del, calls>>

\* second query: the liability accounts
BalanceSheet_Liabilities ==
    /\ bs.pc = "liabilities"
    /\ bs' = [bs EXCEPT !.pc = "equity", !.liabilities = CreditSection("liability")]
    /\ resp' = NoResp
    /\ UNCHANGED <<walletVars, addressVars, inc, accounts, nextAccountId, transactions, transaction_entries,
                   post, del, calls>>

\* third query: the equity accounts; then the totals and the answer
BalanceSheet_Equity ==
    /\ bs.pc = "equity"
    /\ bs' = BsIdle
    /\ resp' = [op |-> "balance_sheet",
                total_assets |-> bs.assets,
                total_liabilities |-> bs.liabilities,
                total_equity |-> CreditSection("equity"),
                total_liabilities_and_equity |-> bs.liabilities + CreditSection("equity"),
                entries_at_start |-> bs.start]
    /\ UNCHANGED <<walletVars, addressVars, inc, accounts, nextAccountId, transactions, transaction_entries,
                   post, del, calls>>

\* the entries of the account whose transaction has a date BETWEEN $1 AND $2
RowsInRange(accountId, start, end) ==
    {i \in RowsOfAccount(transaction_entries, accountId) :
        /\ start <= transactions[transaction_entries[i].transaction_id].date
        /\ transactions[transaction_entries[i].transaction_id].date <= end}

\* the accounts of the type that the query has a row for: without a date
\* filter the LEFT JOIN keeps every account; the filter on t.date drops the
\* accounts that have no entry in the range
AccountsReported(type, filtered, start, end) ==
    IF filtered
    THEN {id \in AccountsOfType(type) : RowsInRange(id, start, end) # {}}
    ELSE AccountsOfType(type)

\* SUM(credit_amount) - SUM(debit_amount) per revenue account
RevenueRows(filtered, start, end) ==
    [id \in AccountsReported("revenue", filtered, start, end) |->
        LET rows == IF filtered THEN RowsInRange(id, start, end)
                    ELSE RowsOfAccount(transaction_entries, id)
        IN CreditsOn(transaction_entries, rows) - DebitsOn(transaction_entries, rows)]

\* SUM(debit_amount) - SUM(credit_amount) per expense account
ExpenseRows(filtered, start, end) ==
    [id \in AccountsReported("expense", filtered, start, end) |->
        LET rows == IF filtered THEN RowsInRange(id, start, end)
                    ELSE RowsOfAccount(transaction_entries, id)
        IN DebitsOn(transaction_entries, rows) - CreditsOn(transaction_entries, rows)]

\* at_start is history: the tables when the first query ran
IncIdle == [pc |-> "idle", start |-> 0, end |-> 0, revenue |-> <<>>, at_start |-> <<>>]

\* GET /income-statement, first query: the revenue accounts.  A bound the
\* query string leaves out is 0; the range is given with both bounds or not
\* at all.
IncomeStatement_Revenue(start, end) ==
    /\ inc.pc = "idle"
    /\ (start = 0) = (end = 0)
    /\ inc' = [pc |-> "expenses", start |-> start, end |-> end,
               revenue |-> RevenueRows(start # 0, start, end),
               at_start |-> <<accounts, Len(transaction_entries)>>]
    /\ resp' = NoResp
    /\ UNCHANGED <<walletVars, addressVars, accounts, nextAccountId, transactions, transaction_entries,
                   post, del, bs, calls>>

\* one bound only: the query text has the placeholders $1 and $2 and the
\* parameter list is empty; the query throws and the handler answers 500
IncomeStatement_Error(start, end) ==
    /\ inc.pc = "idle"
    /\ (start = 0) # (end = 0)
    /\ resp' = [op |-> "income_statement", status |-> 500, error |-> "Server error",
                start |-> start, end |-> end]
    /\ UNCHANGED <<walletVars, addressVars, accounts, nextAccountId, transactions, transaction_entries,
                   post, del, bs, inc, calls>>

\* const netIncome = totalRevenue - totalExpenses
netIncomeAdded(totalRevenue, totalExpenses) == totalRevenue + totalExpenses
netIncome(totalRevenue, totalExpenses) == totalRevenue - totalExpenses

\* second query: the expense accounts; then the totals and the answer
IncomeStatement_Expenses ==
    LET expenses == ExpenseRows(inc.start # 0, inc.start, inc.end)
        totalRevenue == SumSet(inc.revenue, DOMAIN inc.revenue)
        totalExpenses == SumSet(expenses, DOMAIN expenses)
    IN /\ inc.pc = "expenses"
       /\ inc' = IncIdle
       /\ resp' = [op |-> "income_statement", status |-> 200,
                   start |-> inc.start, end |-> inc.end,
                   revenue |-> inc.revenue, expenses |-> expenses,
                   total_revenue |-> totalRevenue,
                   total_expenses |-> totalExpenses,
                   net_income |-> netIncome(totalRevenue, totalExpenses),
                   at_start |-> inc.at_start]
       /\ UNCHANGED <<walletVars, addressVars, accounts, nextAccountId, transactions, transaction_entries,
                      post, del, bs, calls>>

(* ------------------------------ wallets ------------------------------- *)
\* body('amount').isFloat({ min: 0.01 })
ValidAmount(amount) == amount >= MinAmount

WalIdle == [pc |-> "idle", op |-> "none", user_id |-> 0, amount |-> 0, balance |-> 0,
            newBalance |-> 0, id |-> 0]

WalletExists(user_id) == \E w \in wallets : w.user_id = user_id
WalletOf(user_id) == CHOOSE w \in wallets : w.user_id = user_id

\* requests that a wallet handler is still working on
WalletsInFlight == Cardinality({p \in Procs : wal[p].pc # "idle"})

\* a request with an amount the validator refuses
Wallet_Invalid(op, amount) ==
    /\ ~ValidAmount(amount)
    /\ resp' = [op |-> op, status |-> 400]
    /\ UNCHANGED <<accountingVars, walletVars, addressVars>>

\* SELECT * FROM wallets WHERE user_id = $1, for a recharge
Credit_Select(p, op, user_id, amount) ==
    /\ wal[p].pc = "idle"
    /\ ValidAmount(amount)
    /\ wal' = [wal EXCEPT ![p] =
                 IF WalletExists(user_id)
                 THEN [pc |-> "update", op |-> op, user_id |-> user_id, amount |-> amount,
                       balance |-> WalletOf(user_id).balance,
                       newBalance |-> WalletOf(user_id).balance + amount, id |-> 0]
                 ELSE [pc |-> "create", op |-> op, user_id |-> user_id, amount |-> amount,
                       balance |-> 0, newBalance |-> 0, id |-> 0]]
    /\ resp' = NoResp
    /\ UNCHANGED <<accountingVars, addressVars, wallets, nextWalletId, wallet_transactions>>

\* INSERT INTO wallets (user_id) VALUES ($1) RETURNING *
Credit_Create(p, op) ==
    /\ wal[p].pc = "create"
    /\ wal[p].op = op
    /\ ~WalletExists(wal[p].user_id)
    /\ wallets' = wallets \cup {[id |-> nextWalletId, user_id |-> wal[p].user_id, balance |-> 0]}
    /\ nextWalletId' = nextWalletId + 1
    /\ wal' = [wal EXCEPT ![p].pc = "update", ![p].balance = 0, ![p].newBalance = wal[p].amount]
    /\ resp' = NoResp
    /\ UNCHANGED <<accountingVars, addressVars, wallet_transactions>>

\* the INSERT violates UNIQUE (user_id): 500, and the sequence has moved on
Credit_CreateError(p, op) ==
    /\ wal[p].pc = "create"
    /\ wal[p].op = op
    /\ WalletExists(wal[p].user_id)
    /\ nextWalletId' = nextWalletId + 1
    /\ wal' = [wal EXCEPT ![p] = WalIdle]
    /\ resp' = [op |-> op, status |-> 500]
    /\ UNCHANGED <<accountingVars, addressVars, wallets, wallet_transactions>>

\* UPDATE wallets SET balance = $1 WHERE user_id = $2 RETURNING *
Wallet_Update(p, op) ==
    /\ wal[p].pc = "update"
    /\ wal[p].op = op
    /\ wallets' = {IF w.user_id = wal[p].user_id
                   THEN [w EXCEPT !.balance = Round2(wal[p].newBalance)] ELSE w : w \in wallets}
    /\ wal' = [wal EXCEPT ![p].pc = "record", ![p].id = WalletOf(wal[p].user_id).id,
                          ![p].balance = Round2(wal[p].newBalance)]
    /\ resp' = NoResp
    /\ UNCHANGED <<accountingVars, addressVars, nextWalletId, wallet_transactions>>

\* INSERT INTO wallet_transactions (...), then res.json(updatedWallet.rows[0])
Wallet_Record(p, op, transaction_type) ==
    /\ wal[p].pc = "record"
    /\ wal[p].op = op
    /\ wallet_transactions' = Append(wallet_transactions,
           [wallet_id |-> wal[p].id, transaction_type |-> transaction_type,
            amount |-> Round2(wal[p].amount), balance_after |-> Round2(wal[p].newBalance)])
    /\ wal' = [wal EXCEPT ![p] = WalIdle]
    /\ resp' = [op |-> op, status |-> 200,
                wallet |-> [id |-> wal[p].id, user_id |-> wal[p].user_id,
                            balance |-> wal[p].balance]]
    /\ UNCHANGED <<accountingVars, addressVars, wallets, nextWalletId>>

\* POST /recharge: the wallet of user 1
Recharge_Invalid(amount) == Wallet_Invalid("recharge", amount)
Recharge_Select(p, amount) == Credit_Select(p, "recharge", 1, amount)
Recharge_Create(p) == Credit_Create(p, "recharge")
Recharge_CreateError(p) == Credit_CreateError(p, "recharge")
Recharge_Update(p) == Wallet_Update(p, "recharge")
Recharge_Record(p) == Wallet_Record(p, "recharge", "credit")

\* POST /admin-recharge/:userId
AdminRecharge_Invalid(amount) == Wallet_Invalid("admin-recharge", amount)
AdminRecharge_Select(p, userId, amount) == Credit_Select(p, "admin-recharge", userId, amount)
AdminRecharge_Create(p) == Credit_Create(p, "admin-recharge")
AdminRecharge_CreateError(p) == Credit_CreateError(p, "admin-recharge")
AdminRecharge_Update(p) == Wallet_Update(p, "admin-recharge")
AdminRecharge_Record(p) == Wallet_Record(p, "admin-recharge", "credit")

\* POST /deduct: the wallet of user 1
Deduct_Invalid(amount) == Wallet_Invalid("deduct", amount)

\* no wallet: 400 'Wallet not found'
Deduct_NotFound(amount) ==
    /\ ValidAmount(amount)
    /\ ~WalletExists(1)
    /\ resp' = [op |-> "deduct", status |-> 400, msg |-> "Wallet not found"]
    /\ UNCHANGED <<accountingVars, walletVars, addressVars>>

\* parseFloat(currentWallet.balance) < parseFloat(amount): 400
Deduct_Insufficient(amount) ==
    /\ ValidAmount(amount)
    /\ WalletExists(1)
    /\ WalletOf(1).balance < amount
    /\ resp' = [op |-> "deduct", status |-> 400, msg |-> "Insufficient wallet balance"]
    /\ UNCHANGED <<accountingVars, walletVars, addressVars>>

\* the balance that was read covers the amount: newBalance is computed from it
Deduct_Select(p, amount) ==
    /\ wal[p].pc = "idle"
    /\ ValidAmount(amount)
    /\ WalletExists(1)
    /\ ~(WalletOf(1).balance < amount)
    /\ wal' = [wal EXCEPT ![p] =
                 [pc |-> "update", op |-> "deduct", user_id |-> 1, amount |-> amount,
                  balance |-> WalletOf(1).balance,
                  newBalance |-> WalletOf(1).balance - amount, id |-> 0]]
    /\ resp' = NoResp
    /\ UNCHANGED <<accountingVars, addressVars, wallets, nextWalletId, wallet_transactions>>

Deduct_Update(p) == Wallet_Update(p, "deduct")
Deduct_Record(p) == Wallet_Record(p, "deduct", "debit")

(* ------------------------------ addresses ----------------------------- *)
\* address_type CHECK (address_type IN ('sender', 'receiver')); a body without
\* address_type gives NULL on update
AddressTypes == {"sender", "receiver"}
NullType == "null"

AdrIdle == [pc |-> "idle", op |-> "none", id |-> 0, address_type |-> NullType,
            is_default |-> FALSE]

AddressExists(id) == \E a \in addresses : a.id = id /\ a.user_id = 1

\* UPDATE addresses SET is_default = FALSE WHERE user_id = $1 AND address_type = $2
\* (a NULL $2 matches no row)
UnsetDefaults(address_type) ==
    {IF a.user_id = 1 /\ address_type # NullType /\ a.address_type = address_type
     THEN [a EXCEPT !.is_default = FALSE] ELSE a : a \in addresses}

\* creations that have started: the rows inserted and the requests in flight
AddressesStarted ==
    (nextAddressId - 1) + Cardinality({p \in Procs : adr[p].op = "create"})

\* INSERT INTO addresses (...) RETURNING *, then res.json(newAddress.rows[0])
InsertAddress(p, address_type, is_default) ==
    LET row == [id |-> nextAddressId, user_id |-> 1, address_type |-> address_type,
                is_default |-> is_default]
    IN /\ addresses' = addresses \cup {row}
       /\ nextAddressId' = nextAddressId + 1
       /\ adr' = [adr EXCEPT ![p] = AdrIdle]
       /\ resp' = [op |-> "create_address", status |-> 200, address |-> row]
       /\ UNCHANGED <<accountingVars, walletVars>>

\* POST / with is_default: the other defaults of the type are unset first
CreateAddress_Unset(p, address_type, maxAddresses) ==
    /\ adr[p].pc = "idle"
    /\ AddressesStarted < maxAddresses
    /\ addresses' = UnsetDefaults(address_type)
    /\ adr' = [adr EXCEPT ![p] = [pc |-> "insert", op |-> "create", id |-> 0,
                                  address_type |-> address_type, is_default |-> TRUE]]
    /\ resp' = NoResp
    /\ UNCHANGED <<accountingVars, walletVars, nextAddressId>>

CreateAddress_Insert(p) ==
    /\ adr[p].pc = "insert"
    /\ InsertAddress(p, adr[p].address_type, TRUE)

\* POST / without is_default: the INSERT is the only query
CreateAddress_NotDefault(p, address_type, maxAddresses) ==
    /\ adr[p].pc = "idle"
    /\ AddressesStarted < maxAddresses
    /\ InsertAddress(p, address_type, FALSE)

\* PUT /:id of an address the user does not have: 404
UpdateAddress_Missing(id) ==
    /\ ~AddressExists(id)
    /\ resp' = [op |-> "update_address", status |-> 404]
    /\ UNCHANGED <<accountingVars, walletVars, addressVars>>

\* SELECT id FROM addresses WHERE id = $1 AND user_id = $2
UpdateAddress_Check(p, id, address_type, is_default) ==
    /\ adr[p].pc = "idle"
    /\ AddressExists(id)
    /\ adr' = [adr EXCEPT ![p] = [pc |-> IF is_default THEN "unset" ELSE "update",
                                  op |-> "update", id |-> id,
                                  address_type |-> address_type, is_default |-> is_default]]
    /\ resp' = NoResp
    /\ UNCHANGED <<accountingVars, walletVars, addresses, nextAddressId>>

UpdateAddress_Unset(p) ==
    /\ adr[p].pc = "unset"
    /\ addresses' = UnsetDefaults(adr[p].address_type)
    /\ adr' = [adr EXCEPT ![p].pc = "update"]
    /\ resp' = NoResp
    /\ UNCHANGED <<accountingVars, walletVars, nextAddressId>>

\* UPDATE addresses SET ..., address_type = $11, is_default = $12 WHERE id = $13
UpdateAddress_Update(p) ==
    /\ adr[p].pc = "update"
    /\ LET row == [id |-> adr[p].id, user_id |-> 1, address_type |-> adr[p].address_type,
                   is_default |-> adr[p].is_default]
       IN /\ addresses' = {IF a.id = adr[p].id THEN row ELSE a : a \in addresses}
          /\ resp' = [op |-> "update_address", status |-> 200, address |-> row]
    /\ adr' = [adr EXCEPT ![p] = AdrIdle]
    /\ UNCHANGED <<accountingVars, walletVars, nextAddressId>>

(* ------------------------------ Init ---------------------------------- *)
Init ==
    /\ accounts = {InitialAccount(i) : i \in 1..NAcc}
    /\ nextAccountId = NAcc + 1
    /\ transactions = <<>>
    /\ transaction_entries = <<>>
    /\ post = [p \in Procs |-> Idle]
    /\ del = DelIdle
    /\ bs = BsIdle
    /\ inc = IncIdle
    /\ resp = NoResp
    /\ calls = <<>>
    /\ wallets = {}
    /\ nextWalletId = 1
    /\ wallet_transactions = <<>>
    /\ wal = [p \in Procs |-> WalIdle]
    /\ addresses = {}
    /\ nextAddressId = 1
    /\ adr = [p \in Procs |-> AdrIdle]

(* ------------- the posting engine alone, one request at a time -------- *)
\* The answer to a rejected request does not depend on its body, so one
\* rejected body of each kind stands for all of them.
OneOf(S) == IF S = {} THEN {} ELSE {CHOOSE x \in S : TRUE}

TooShort(inputs) == {entries \in inputs : Len(entries) < 2}

Imbalanced(inputs) == {entries \in inputs : Len(entries) >= 2 /\ ~BalancedInput(entries)}

Accepted(inputs) == {entries \in inputs : Len(entries) >= 2 /\ BalancedInput(entries)}

PostInputs == SeqsOf(AnyLines, 1, MaxEntries)

PostInputsTooShort == OneOf(TooShort(PostInputs))

PostInputsImbalanced == OneOf(Imbalanced(PostInputs))

PostInputsAccepted == Accepted(PostInputs)

Next ==
    \/ \E entries \in PostInputsTooShort : PostTransaction_Invalid(1, entries)
    \/ \E entries \in PostInputsImbalanced : PostTransaction_Imbalance(1, entries)
    \/ /\ Len(transactions) < MaxTxPost
       /\ \E entries \in PostInputsAccepted :
             PostTransaction_InsertTransaction(1, entries, 1, MaxTxPost)
    \/ PostTransaction_InsertEntry(1)
    \/ PostTransaction_EntryError(1)

Spec == Init /\ [][Next]_vars

(* ---- postings of well-formed lines, one at a time, and the reads ----- *)
BookInputs == SeqsOf(BookLines, 1, MaxEntries)

BookInputsTooShort == OneOf(TooShort(BookInputs))

BookInputsImbalanced == OneOf(Imbalanced(BookInputs))

BookInputsAccepted == Accepted(BookInputs)

NextBooks ==
    \/ \E entries \in BookInputsTooShort : PostTransaction_Invalid(1, entries)
    \/ \E entries \in BookInputsImbalanced : PostTransaction_Imbalance(1, entries)
    \/ /\ Len(transactions) < MaxTx
       /\ \E entries \in BookInputsAccepted, date \in Dates :
             PostTransaction_InsertTransaction(1, entries, date, MaxTx)
    \/ PostTransaction_InsertEntry(1)
    \/ \E a \in AccountIds : GetBalance(a)
    \/ \E a \in AccountIds : GetAccountLedger(a)
    \/ TrialBalance

SpecBooks == Init /\ [][NextBooks]_vars

(* ------------- concurrent postings and concurrent reads --------------- *)
\* The requests in flight all post on account 1.
OneCentInputs == SeqsOf(OneCentLines, 2, MaxEntries)

OneCentInputsImbalanced == OneOf(Imbalanced(OneCentInputs))

OneCentTransfers == Accepted(Transfers(1, {2}))

NextConc ==
    \/ \E p \in Procs : \E entries \in OneCentInputsImbalanced :
          PostTransaction_Imbalance(p, entries)
    \/ /\ Len(transactions) < MaxTx
       /\ \E p \in Procs : \E entries \in OneCentTransfers :
             PostTransaction_InsertTransaction(p, entries, 1, MaxTx)
    \/ \E p \in Procs : PostTransaction_InsertEntry(p)
    \/ \E a \in AccountIds : GetBalance(a)
    \/ TrialBalance

SpecConc == Init /\ [][NextConc]_vars

TwoCentInputs == SeqsOf(TwoCentLines, 2, MaxEntries)

TwoCentInputsImbalanced == OneOf(Imbalanced(TwoCentInputs))

TwoCentInputsAccepted == Accepted(TwoCentInputs)

TwoCentTransfers == Accepted(Transfers(1, {4}))

(* ------------------- postings and the balance sheet ------------------- *)
NextSheet ==
    \/ \E entries \in TwoCentInputsImbalanced : PostTransaction_Imbalance(1, entries)
    \/ /\ Len(transactions) < MaxTx
       /\ \E entries \in TwoCentInputsAccepted :
             PostTransaction_InsertTransaction(1, entries, 1, MaxTx)
    \/ PostTransaction_InsertEntry(1)
    \/ BalanceSheet_Assets
    \/ BalanceSheet_Liabilities
    \/ BalanceSheet_Equity

SpecSheet == Init /\ [][NextSheet]_vars

(* ---------------- the account registry and postings ------------------ *)
NewAccountIds == 1..(NAcc + MaxNewAccounts)

\* the number of a new account: the number given to the first account of
\* the chart, or a number no account has had
NewAccountNumbers == {1000, 1000 * nextAccountId}

NextReg ==
    \/ \E number \in NewAccountNumbers, type \in NewAccountTypes,
          parent \in {0} \cup NewAccountIds :
          CreateAccount(number, type, parent)
    \/ \E number \in NewAccountNumbers, type \in NewAccountTypes,
          parent \in {0} \cup NewAccountIds :
          CreateAccount_Error(number, type, parent)
    \/ \E id \in NewAccountIds : DeleteAccount_Check(id)
    \/ \E id \in NewAccountIds : DeleteAccount_Refuse(id)
    \/ DeleteAccount_Delete
    \/ DeleteAccount_Error
    \/ /\ Len(transactions) < MaxTx
       /\ \E entries \in TwoCentTransfers :
             PostTransaction_InsertTransaction(1, entries, 1, MaxTx)
    \/ PostTransaction_InsertEntry(1)
    \/ PostTransaction_EntryError(1)

SpecReg == Init /\ [][NextReg]_vars

(* ------------------ the chart of accounts alone ----------------------- *)
\* the types an update gives an account
UpdateAccountTypes == {"asset", "expense"}

NextChart ==
    \/ \E number \in NewAccountNumbers, type \in NewAccountTypes,
          parent \in {0} \cup NewAccountIds :
          CreateAccount(number, type, parent)
    \/ \E number \in NewAccountNumbers, type \in NewAccountTypes,
          parent \in {0} \cup NewAccountIds :
          CreateAccount_Error(number, type, parent)
    \/ \E id \in NewAccountIds, type \in UpdateAccountTypes,
          parent \in {0} \cup NewAccountIds :
          UpdateAccount(id, type, parent)
    \/ \E id \in NewAccountIds, type \in UpdateAccountTypes,
          parent \in {0} \cup NewAccountIds :
          UpdateAccount_Error(id, type, parent)
    \/ \E id \in NewAccountIds : UpdateAccount_Missing(id)

SpecChart == Init /\ [][NextChart]_vars

(* ------------- concurrent postings and their numbers ------------------ *)
\* the numbers the handler can generate
TransactionNumbers ==
    {transactionNumber(now, random) : now \in 1..MaxClock, random \in 1..MaxRandom}

\* one body for all the requests
OneTransfer == OneOf(OneCentTransfers)

NextNumbers ==
    \/ /\ Len(transactions) < MaxTx
       /\ \E p \in Procs : \E entries \in OneTransfer : \E number \in TransactionNumbers :
             PostTransaction_InsertNumbered(p, entries, 1, MaxTx, number)
    \/ \E p \in Procs : \E entries \in OneTransfer : \E number \in TransactionNumbers :
          PostTransaction_NumberError(p, entries, number)
    \/ \E p \in Procs : PostTransaction_InsertEntry(p)

SpecNumbers == Init /\ [][NextNumbers]_vars

(* --------------- postings and the income statement -------------------- *)
\* a bound of the date range: a date, or 0 for a bound that is not given
DateBounds == 0..MaxDate

NextIncome ==
    \/ /\ Len(transactions) < MaxTxPost
       /\ \E entries \in TwoCentTransfers, date \in Dates :
             PostTransaction_InsertTransaction(1, entries, date, MaxTxPost)
    \/ PostTransaction_InsertEntry(1)
    \/ UpdateAccount(1, "expense", 0)
    \/ \E start \in DateBounds, end \in DateBounds : IncomeStatement_Revenue(start, end)
    \/ \E start \in DateBounds, end \in DateBounds : IncomeStatement_Error(start, end)
    \/ IncomeStatement_Expenses

SpecIncome == Init /\ [][NextIncome]_vars

(* ------- every operation on the journal and on the chart, together ---- *)
NextJournal ==
    \/ /\ Len(transactions) < MaxTxPost
       /\ \E entries \in TwoCentTransfers :
             PostTransaction_InsertTransaction(1, entries, 1, MaxTxPost)
    \/ PostTransaction_InsertEntry(1)
    \/ PostTransaction_EntryError(1)
    \/ \E type \in NewAccountTypes : CreateAccount(1000 * nextAccountId, type, 0)
    \/ UpdateAccount(1, "expense", 0)
    \/ \E id \in 1..NAcc : DeleteAccount_Check(id)
    \/ \E id \in 1..NAcc : DeleteAccount_Refuse(id)
    \/ DeleteAccount_Delete
    \/ DeleteAccount_Error
    \/ \E a \in AccountIds \cap {1} : GetBalance(a)
    \/ \E a \in AccountIds \cap {1} : GetAccountLedger(a)
    \/ TrialBalance
    \/ BalanceSheet_Assets
    \/ BalanceSheet_Liabilities
    \/ BalanceSheet_Equity

SpecJournal == Init /\ [][NextJournal]_vars

(* ------------------- concurrent wallet requests ----------------------- *)
WalletAmounts == 0..MaxWalletAmt
WalletUsers == 1..NUsers

\* wallet requests that have started and were not refused
WalletsStarted == Len(wallet_transactions) + WalletsInFlight

NextWallet ==
    \/ \E amount \in WalletAmounts : Recharge_Invalid(amount)
    \/ /\ WalletsStarted < MaxWalletTx
       /\ \E p \in Procs : \E amount \in WalletAmounts : Recharge_Select(p, amount)
    \/ \E p \in Procs : Recharge_Create(p)
    \/ \E p \in Procs : Recharge_CreateError(p)
    \/ \E p \in Procs : Recharge_Update(p)
    \/ \E p \in Procs : Recharge_Record(p)
    \/ \E amount \in WalletAmounts : AdminRecharge_Invalid(amount)
    \/ /\ WalletsStarted < MaxWalletTx
       /\ \E p \in Procs : \E userId \in WalletUsers : \E amount \in WalletAmounts :
             AdminRecharge_Select(p, userId, amount)
    \/ \E p \in Procs : AdminRecharge_Create(p)
    \/ \E p \in Procs : AdminRecharge_CreateError(p)
    \/ \E p \in Procs : AdminRecharge_Update(p)
    \/ \E p \in Procs : AdminRecharge_Record(p)
    \/ \E amount \in WalletAmounts : Deduct_Invalid(amount)
    \/ \E amount \in WalletAmounts : Deduct_NotFound(amount)
    \/ \E amount \in WalletAmounts : Deduct_Insufficient(amount)
    \/ /\ WalletsStarted < MaxWalletTx
       /\ \E p \in Procs : \E amount \in WalletAmounts : Deduct_Select(p, amount)
    \/ \E p \in Procs : Deduct_Update(p)
    \/ \E p \in Procs : Deduct_Record(p)

SpecWallet == Init /\ [][NextWallet]_vars

(* ------------------- concurrent address requests ---------------------- *)
AddressTypesIn == AddressTypes \cup {NullType}

NextAddress ==
    \/ \E p \in Procs : \E address_type \in AddressTypesIn :
          CreateAddress_Unset(p, address_type, MaxAddresses)
    \/ \E p \in Procs : CreateAddress_Insert(p)
    \/ \E p \in Procs : \E address_type \in AddressTypesIn :
          CreateAddress_NotDefault(p, address_type, MaxAddresses)
    \/ \E id \in 1..MaxAddresses : UpdateAddress_Missing(id)
    \/ \E p \in Procs : \E id \in 1..MaxAddresses : \E address_type \in AddressTypesIn :
          \E is_default \in BOOLEAN : UpdateAddress_Check(p, id, address_type, is_default)
    \/ \E p \in Procs : UpdateAddress_Unset(p)
    \/ \E p \in Procs : UpdateAddress_Update(p)

SpecAddress == Init /\ [][NextAddress]_vars

(* ============================== claims ================================ *)
JournalRowsOf(t) == {i \in DOMAIN transaction_entries : transaction_entries[i].transaction_id = t}

JournalDebits(t) == DebitsOn(transaction_entries, JournalRowsOf(t))

JournalCredits(t) == CreditsOn(transaction_entries, JournalRowsOf(t))

\* the rows a request asks to be stored for transaction t
SubmittedRows(t) ==
    [i \in 1..Len(calls[t].entries) |-> StoredEntry(t, calls[t].entries[i])]

\* the entries table made of the whole requests of S, one request after the other
RECURSIVE JournalOfCalls(_, _)
JournalOfCalls(k, S) ==
    IF k = 0 THEN <<>>
    ELSE JournalOfCalls(k - 1, S) \o (IF k \in S THEN SubmittedRows(k) ELSE <<>>)

AllCallsOk == \A t \in DOMAIN calls : calls[t].outcome = "ok"

\* C1: every transaction that a successful PostTransaction committed has
\* |sum(debit) - sum(credit)| <= 0.01 over its rows in the journal.
C1_PostedTransactionBalanced ==
    \A t \in DOMAIN calls :
        calls[t].outcome = "ok"
            => Abs(JournalDebits(t) - JournalCredits(t)) <= Tolerance

\* C2: in every state, also in the middle of a posting and after a failed
\* one, the journal holds a transaction together with all the entries
\* submitted for it, or neither the transaction nor any of its entries.
C2_PostingAtomic ==
    \A t \in DOMAIN transactions :
        /\ Cardinality(JournalRowsOf(t)) = Len(calls[t].entries)
        /\ \A i \in 1..Len(calls[t].entries) :
              \E j \in JournalRowsOf(t) : transaction_entries[j] = SubmittedRows(t)[i]

\* C3: a PostTransaction call that ends in an error leaves the journal as it
\* was before the call: neither its transaction row nor any entry row of it
\* is in the journal.
C3_ErrorLeavesJournal ==
    \A t \in DOMAIN calls :
        calls[t].outcome = "error"
            => t \notin DOMAIN transactions /\ JournalRowsOf(t) = {}

\* C4: a trial balance read while postings run counts, for every
\* transaction, all of its entries or none: its rows are the sums over the
\* whole requests of some set of transactions.
C4_TrialBalanceWholeTransactions ==
    resp.op = "trial_balance" =>
        \E S \in SUBSET (DOMAIN calls) :
            LET whole == JournalOfCalls(Len(calls), S)
            IN \A a \in AccountIds :
                  /\ resp.accounts[a].total_debits
                        = DebitsOn(whole, RowsOfAccount(whole, a))
                  /\ resp.accounts[a].total_credits
                        = CreditsOn(whole, RowsOfAccount(whole, a))

\* C5: once concurrent postings have all completed successfully, whatever
\* the interleaving of their inserts, ComputeBalance of every account is the
\* value it has when the postings run one after the other.
C5_ConcurrentPostingsBalance ==
    (resp.op = "balance" /\ Len(calls) >= 2 /\ AllCallsOk)
        => resp.balance
             = ComputeBalanceOn(JournalOfCalls(Len(calls), DOMAIN calls), resp.account_id)

\* two postings whose inserts interleaved both touch the account whose
\* balance was read after both completed
C5_Witness ==
    /\ resp.op = "balance"
    /\ resp.balance # 0
    /\ Len(calls) >= 2
    /\ AllCallsOk
    /\ \E i, j, k \in DOMAIN transaction_entries :
          /\ i < j /\ j < k
          /\ transaction_entries[i].transaction_id = transaction_entries[k].transaction_id
          /\ transaction_entries[j].transaction_id # transaction_entries[i].transaction_id
    /\ \A t \in DOMAIN calls :
          \E i \in JournalRowsOf(t) :
              /\ transaction_entries[i].account_id = resp.account_id
              /\ transaction_entries[i].debit_amount + transaction_entries[i].credit_amount > 0

\* C6: when every transaction of the journal was committed by a successful
\* PostTransaction, the trial balance has |total_debits - total_credits| <=
\* 0.01, i.e. it is balanced.
C6_TrialBalanceBalanced ==
    (resp.op = "trial_balance" /\ AllCallsOk)
        => Abs(resp.total_debits - resp.total_credits) <= Tolerance

\* the balance in the sense of the account's normal balance
NormalBalance(accountId) ==
    LET rows == RowsOfAccount(transaction_entries, accountId)
        debit == DebitsOn(transaction_entries, rows)
        credit == CreditsOn(transaction_entries, rows)
    IN IF AccountRow(accountId).account_type \in {"asset", "expense"}
       THEN debit - credit
       ELSE credit - debit

\* C7: ComputeBalance is sum(debit) - sum(credit) for an asset or expense
\* account and sum(credit) - sum(debit) for a liability, equity or revenue
\* account.
C7_BalanceByAccountType ==
    resp.op = "balance" => resp.balance = NormalBalance(resp.account_id)

\* C8: the running balance of the last row of an account's ledger equals
\* ComputeBalance of the account.
C8_LedgerEndsAtBalance ==
    (resp.op = "ledger" /\ resp.rows # <<>>)
        => resp.rows[Len(resp.rows)].running_balance = ComputeBalance(resp.account_id)

AllPostingsBalanced ==
    \A t \in DOMAIN transactions :
        Abs(JournalDebits(t) - JournalCredits(t)) <= Tolerance

\* C9: if every posting in the journal is balanced, the balance sheet of
\* the journal (no entry was inserted while it was computed) has
\* total_assets = total_liabilities + total_equity within the tolerance.
C9_BalanceSheetEquation ==
    (/\ resp.op = "balance_sheet"
     /\ resp.entries_at_start = Len(transaction_entries)
     /\ AllPostingsBalanced)
        => Abs(resp.total_assets - (resp.total_liabilities + resp.total_equity))
             <= Tolerance

C11_NoOrphanEntry ==
    \A i \in DOMAIN transaction_entries :
        \E a \in accounts : a.id = transaction_entries[i].account_id

\* a deletion passed the handler's count, an entry on the account was
\* inserted, and the DELETE was refused
C11_Witness ==
    /\ resp.op = "delete"
    /\ resp.status = 500
    /\ HasEntry(resp.id)
    /\ ~HasChild(resp.id)

\* the parent of an account, 0 when it has none or when no account has the id
ParentOf(id) == IF AccountExists(id) THEN AccountRow(id).parent_account_id ELSE 0

\* the account reached from id by following k parent references
RECURSIVE AncestorAt(_, _)
AncestorAt(id, k) == IF k = 0 THEN id ELSE ParentOf(AncestorAt(id, k - 1))

\* C12: the parent relation of the chart is a forest: every parent
\* reference names an existing account, and following parent references
\* from an account never comes back to it.
C12_ParentForest ==
    \A a \in accounts :
        /\ a.parent_account_id = 0 \/ AccountExists(a.parent_account_id)
        /\ \A k \in 1..Cardinality(accounts) : AncestorAt(a.id, k) # a.id

\* C13: no two accounts share an account number, and a CreateAccount that
\* fails on a number an account already has fails with ConflictError.
C13_DuplicateNumberConflict ==
    /\ \A a, b \in accounts : a.account_number = b.account_number => a = b
    /\ (resp.op = "create" /\ resp.status # 200 /\ NumberTaken(resp.number))
          => resp.error = "ConflictError"

\* C14: no request with fewer than two entries writes anything, and every
\* transaction in the journal has at least two entries.
C14_AtLeastTwoEntries ==
    /\ \A t \in DOMAIN calls : Len(calls[t].entries) >= 2
    /\ \A t \in DOMAIN transactions : Cardinality(JournalRowsOf(t)) >= 2

\* C15: no request whose totals differ by more than the tolerance writes
\* anything, and the ImbalanceError it is answered with carries the debit
\* total and the credit total.
C15_ImbalanceCarriesTotals ==
    /\ \A t \in DOMAIN calls : BalancedInput(calls[t].entries)
    /\ (resp.op = "post" /\ resp.status = 400 /\ resp.error = "ImbalanceError")
          => {"total_debits", "total_credits"} \subseteq DOMAIN resp

\* C16: no request that names an account that does not exist writes
\* anything to the journal, and the error it is answered with is
\* NotFoundError.
C16_UnknownAccountRejected ==
    /\ \A t \in DOMAIN calls :
          \A i \in 1..Len(calls[t].entries) : AccountExists(calls[t].entries[i].account_id)
    /\ (resp.op = "post" /\ resp.status \notin {200, 400})
          => resp.error = "NotFoundError"

\* C17: every entry of the journal has exactly one of debit_amount and
\* credit_amount non-zero.
C17_OneSidedEntries ==
    \A i \in DOMAIN transaction_entries :
        (transaction_entries[i].debit_amount # 0)
            # (transaction_entries[i].credit_amount # 0)

C19_StatusPosted ==
    \A t \in DOMAIN calls :
        calls[t].outcome = "ok" => transactions[t].status = "posted"

\* the amount the income statement is to show for an account: over the
\* entries whose date is within the bounds that are given
AmountInRange(id, start, end) ==
    LET rows == {i \in RowsOfAccount(transaction_entries, id) :
                    LET d == transactions[transaction_entries[i].transaction_id].date
                    IN (start = 0 \/ start <= d) /\ (end = 0 \/ d <= end)}
    IN CreditsOn(transaction_entries, rows) - DebitsOn(transaction_entries, rows)

\* the amount a report shows for an account: an account without a row shows 0
AmountShown(rows, id) == IF id \in DOMAIN rows THEN rows[id] ELSE 0

\* C20: every request for an income statement, with both bounds, one bound
\* or none, is answered with the statement; the statement of the journal
\* as it is (nothing changed while it was computed) shows credit - debit
\* for each revenue account and debit - credit for each expense account,
\* over the entries dated within the range.
C20_IncomeStatementRange ==
    resp.op = "income_statement" =>
        /\ resp.status = 200
        /\ resp.at_start = <<accounts, Len(transaction_entries)>> =>
              /\ \A id \in AccountsOfType("revenue") :
                    AmountShown(resp.revenue, id) = AmountInRange(id, resp.start, resp.end)
              /\ \A id \in AccountsOfType("expense") :
                    AmountShown(resp.expenses, id)
                        = 0 - AmountInRange(id, resp.start, resp.end)

NormalAmount(type, row) ==
    IF type \in {"asset", "expense"}
    THEN row.debit_amount - row.credit_amount
    ELSE row.credit_amount - row.debit_amount

\* C22: the rows of a ledger are ordered by transaction date and then by
\* entry id, and the running_balance of each row is the sum, in the sense of
\* the account type's normal balance, of the rows up to and including it in
\* that order.
C22_LedgerRunningBalance ==
    resp.op = "ledger" =>
        LET rows == resp.rows
            type == AccountRow(resp.account_id).account_type
        IN /\ \A k \in 1..(Len(rows) - 1) :
                 \/ rows[k].date < rows[k + 1].date
                 \/ rows[k].date = rows[k + 1].date /\ rows[k].id < rows[k + 1].id
           /\ \A k \in 1..Len(rows) :
                 rows[k].running_balance
                    = SumSeq([j \in 1..k |-> NormalAmount(type, rows[j])])

\* C23: any two transactions of the journal have different transaction
\* numbers.
C23_UniqueTransactionNumbers ==
    \A t1, t2 \in DOMAIN transactions :
        transactions[t1].transaction_number = transactions[t2].transaction_number
            => t1 = t2

\* two postings in flight at the same time were numbered in the same
\* millisecond
C23_Witness ==
    \E t1, t2 \in DOMAIN transactions :
        /\ t1 # t2
        /\ transactions[t1].transaction_number[1] = transactions[t2].transaction_number[1]
        /\ calls[t1].outcome = "running"
        /\ calls[t2].outcome = "running"

\* credit - debit of an account over the rows of a table, all of them or
\* those dated within the range
AmountOn(table, id, filtered, start, end) ==
    LET rows == {i \in RowsOfAccount(table, id) :
                    \/ ~filtered
                    \/ /\ start <= transactions[table[i].transaction_id].date
                       /\ transactions[table[i].transaction_id].date <= end}
    IN CreditsOn(table, rows) - DebitsOn(table, rows)

\* credit - debit of the accounts of a type over the rows of a table
SectionOn(table, type) ==
    SumSet([id \in AccountIds |-> ComputeBalanceOn(table, id)], AccountsOfType(type))

C25_BalancedFlag ==
    resp.op = "trial_balance" =>
        /\ "balanced" \in DOMAIN resp
        /\ resp.balanced = (Abs(resp.total_debits - resp.total_credits) <= Tolerance)

\* C26: a step that writes to the journal leaves the account registry as
\* it is, the balance column of every account included.
C26_PostingChangesJournalOnly ==
    [][(transactions' # transactions \/ transaction_entries' # transaction_entries)
          => (accounts' = accounts /\ nextAccountId' = nextAccountId)]_vars

\* a posting completed successfully on a chart that account operations
\* have changed
C26_Witness ==
    /\ resp.op = "post"
    /\ resp.status = 200
    /\ Len(transaction_entries) >= 2
    /\ accounts # {InitialAccount(i) : i \in 1..NAcc}
    /\ \A a \in accounts : a.balance = 0

\* C27: every entry of the journal has debit_amount >= 0 and
\* credit_amount >= 0.
C27_AmountsNotNegative ==
    \A i \in DOMAIN transaction_entries :
        transaction_entries[i].debit_amount >= 0 /\ transaction_entries[i].credit_amount >= 0

(* ------------------------------ wallets ------------------------------- *)
\* the amounts of the transactions of one type recorded for a wallet
WalletAmountsOf(wallet_id, transaction_type) ==
    SumSet([i \in DOMAIN wallet_transactions |->
               IF wallet_transactions[i].wallet_id = wallet_id
                  /\ wallet_transactions[i].transaction_type = transaction_type
               THEN wallet_transactions[i].amount ELSE 0],
           DOMAIN wallet_transactions)

WalletsQuiet == \A p \in Procs : wal[p].pc = "idle"

\* C28: once every wallet request has completed, the stored balance of each
\* wallet is the sum of its credit transactions minus the sum of its debit
\* transactions.
C28_NoLostUpdate ==
    WalletsQuiet =>
        \A w \in wallets :
            w.balance = WalletAmountsOf(w.id, "credit") - WalletAmountsOf(w.id, "debit")

\* C29: no step leaves a wallet with a negative balance, a deduct that is
\* applied does not exceed the balance stored at that moment, and a refused
\* deduct changes neither the wallet nor its transaction history.
C29_DeductWithinBalance ==
    [][/\ \A w \in wallets' : w.balance >= 0
       /\ \A p \in Procs :
             (wal[p].op = "deduct" /\ wal[p].pc = "update" /\ wal'[p].pc = "record")
                 => wal[p].amount <= WalletOf(1).balance
       /\ (resp'.op = "deduct" /\ resp'.status = 400)
             => (wallets' = wallets /\ wallet_transactions' = wallet_transactions)]_vars

(* ------------------------------ addresses ----------------------------- *)
DefaultsOf(address_type) ==
    {a \in addresses : a.user_id = 1 /\ a.address_type = address_type /\ a.is_default}

\* C30: once every address request has completed, the user has at most one
\* default address of each address type.
C30_OneDefaultPerType ==
    (\A p \in Procs : adr[p].pc = "idle") =>
        \A address_type \in AddressTypes : Cardinality(DefaultsOf(address_type)) <= 1


====
